---- MODULE Spec2Model ----
(***************************************************************************)
(* static-slicing (src/src/lib.rs): statically checked indexing and        *)
(* slicing of fixed-size arrays, the runtime-checked SliceWrapper, and     *)
(* FixedSizeCopy::copy_from.                                               *)
(*                                                                         *)
(* The state is one contiguous container data owned by a client, a       *)
(* second array src of the same length (the argument of copy_from),      *)
(* whether data is currently borrowed by a SliceWrapper, and the         *)
(* observable result of the last operation.  Each trait method of the      *)
(* crate is one action.                                                    *)
(***************************************************************************)
EXTENDS Integers, Sequences, FiniteSets, TLC

VARIABLES data, src, wrapped, last

vars == <<data, src, wrapped, last>>

(***************************************************************************)
(* Bounds.                                                                 *)
(***************************************************************************)
\* width of usize in the model
WordBits == 3
\* largest container length
MaxLen == 3

UsizeMax == 2^WordBits - 1
Usize == 0..UsizeMax

\* The constants carried by the index tokens: every value up to two past the
\* largest container length, and the two largest values of the word.
Tokens == {n \in Usize : n <= MaxLen + 2 \/ n >= UsizeMax - 1}

\* The element type T / I.  The crate is generic over it and never inspects
\* an element, so two distinguishable values are enough to tell positions
\* apart.
Vals == {0, 1}
\* What a read outside the container's storage may yield: a T or anything
\* else (-1).
Wild == Vals \cup {-1}

\* All containers [T; N] for N in 0..MaxLen.
Arrays == UNION {[1..n -> Vals] : n \in 0..MaxLen}

\* Values of type [T; n] a client may assign through a mutable view.  Views
\* longer than any container are never written (the access is rejected), so
\* only constant-filled ones are enumerated for them.
ArrayValues(n) ==
  IF n <= MaxLen THEN [1..n -> Vals] ELSE {[k \in 1..n |-> v] : v \in Vals}

Zeros(n) == [k \in 1..n |-> 0]

(***************************************************************************)
(* Diagnostics: a format string, the names of the values it interpolates   *)
(* and the values themselves.                                              *)
(***************************************************************************)
Msg(f, n, a) == [fmt |-> f, names |-> n, args |-> a]
NoMsg == Msg("", <<>>, <<>>)

(***************************************************************************)
(* usize arithmetic.                                                       *)
(***************************************************************************)
\* START + LENGTH inside a const item: overflow checks are always on in
\* constant evaluation, so an overflowing sum is an evaluation error.
WrappingAdd(a, b) == [val |-> (a + b) % (UsizeMax + 1), ovf |-> FALSE]
CheckedAdd(a, b) ==
  [val |-> (a + b) % (UsizeMax + 1), ovf |-> a + b > UsizeMax]

\* inner.len() - START at run time; ovf records that the true difference
\* is negative.
UsizeSub(a, b) ==
  [val |-> (a - b + UsizeMax + 1) % (UsizeMax + 1), ovf |-> a < b]

(***************************************************************************)
(* Validity predicates of the fixed-capacity accessors (const items).      *)
(***************************************************************************)
IsValidIndex(INDEX, N) ==
  IF INDEX >= N
    THEN [outcome |-> "panic", msg |-> Msg("Index is out of bounds!", <<>>, <<>>),
          ovf |-> FALSE]
    ELSE [outcome |-> "ok", msg |-> NoMsg, ovf |-> FALSE]

IsValidIndexRangeStrictEnd(START, LENGTH, N) ==
  IF START >= N
    THEN [outcome |-> "panic",
          msg |-> Msg("Starting index is out-of-bounds, please see compile error for more info",
                      <<>>, <<>>),
          ovf |-> FALSE]
    ELSE LET sum == CheckedAdd(START, LENGTH) IN
         IF sum.ovf
           THEN [outcome |-> "overflow",
                 msg |-> Msg("attempt to compute START + LENGTH, which would overflow",
                             <<>>, <<>>),
                 ovf |-> TRUE]
         ELSE IF sum.val >= N
           THEN [outcome |-> "panic",
                 msg |-> Msg("Ending index is out-of-bounds, please see compile error for more info",
                             <<>>, <<>>),
                 ovf |-> FALSE]
         ELSE [outcome |-> "ok", msg |-> NoMsg, ovf |-> FALSE]
IsValidIndexRange(START, LENGTH, N) ==
  IF START >= N
    THEN [outcome |-> "panic",
          msg |-> Msg("Starting index is out-of-bounds, please see compile error for more info",
                      <<>>, <<>>),
          ovf |-> FALSE]
    ELSE LET sum == CheckedAdd(START, LENGTH) IN
         IF sum.ovf
           THEN [outcome |-> "overflow",
                 msg |-> Msg("attempt to compute START + LENGTH, which would overflow",
                             <<>>, <<>>),
                 ovf |-> TRUE]
         ELSE IF sum.val > N
           THEN [outcome |-> "panic",
                 msg |-> Msg("Ending index is out-of-bounds, please see compile error for more info",
                             <<>>, <<>>),
                 ovf |-> FALSE]
         ELSE [outcome |-> "ok", msg |-> NoMsg, ovf |-> FALSE]

\* let _ = <[T; N] as IsValidIndex<INDEX>>::RESULT; names an associated
\* const: it is evaluated while the program is built, and a failing
\* evaluation fails the build instead of panicking at run time.
RuntimeEval(chk) == IF chk.outcome = "ok" THEN "ok" ELSE "panic"
ConstEval(chk) == IF chk.outcome = "ok" THEN "ok" ELSE "build_error"

(***************************************************************************)
(* Raw pointers into the container's storage.  as_ptr() is address 0 and   *)
(* element k (1-based in the sequence) lives at address k - 1.             *)
(***************************************************************************)
AsPtr == 0
PtrAddOffByOne(p, count) == p + count + 1
PtrAdd(p, count) == p + count

InBounds(mem, p, n) == p >= 0 /\ p + n <= Len(mem)

\* &*(p as *const T): the values the read can produce.  Outside the
\* storage the read is undefined: any value.
Deref(mem, p) == IF InBounds(mem, p, 1) THEN {mem[p + 1]} ELSE Wild

\* &*(p as *const [T; n]): the views the read can produce.  Elements
\* outside the storage are undefined (the neighbouring memory is taken to
\* hold one arbitrary value).
DerefArray(mem, p, n) ==
  {[k \in 1..n |-> IF p + k - 1 >= 0 /\ p + k - 1 < Len(mem) THEN mem[p + k] ELSE w] :
     w \in (IF InBounds(mem, p, n) THEN {-1} ELSE Wild)}

\* *(&mut *(p as *mut [T; n])) = value: the storage after the assignment.
StoreArrayShifted(mem, p, value) ==
  [k \in 1..Len(mem) |->
     IF k - 1 >= p + 1 /\ k - 1 < p + 1 + Len(value) THEN value[k - p - 1] ELSE mem[k]]
StoreArray(mem, p, value) ==
  [k \in 1..Len(mem) |->
     IF k - 1 >= p /\ k - 1 < p + Len(value) THEN value[k - p] ELSE mem[k]]

(***************************************************************************)
(* The record left by an operation.                                        *)
(*   op       the method                                                   *)
(*   a, b     INDEX (b = 0), or START and LENGTH                           *)
(*   val      the value assigned through a mutable reference               *)
(*   outcome  "ok", "build_error" (the program does not compile) or        *)
(*            "panic"                                                      *)
(*   msg      the diagnostic of a failure                                  *)
(*   result   what the returned reference points at                        *)
(*   ran      the method body was executed at run time                     *)
(*   ub       a pointer outside the storage was dereferenced               *)
(*   ovf      an arithmetic step of the bounds check over/underflowed      *)
(***************************************************************************)
Rec(o, x, y, v, out, m, res, r, u, f) ==
  [op |-> o, a |-> x, b |-> y, val |-> v, outcome |-> out, msg |-> m,
   result |-> res, ran |-> r, ub |-> u, ovf |-> f]

NoOp == Rec("none", 0, 0, <<>>, "ok", NoMsg, <<>>, FALSE, FALSE, FALSE)

Failed(o, x, y, out, chk) ==
  Rec(o, x, y, <<>>, out, chk.msg, <<>>, out = "panic", FALSE, chk.ovf)

(***************************************************************************)
(* Fixed-capacity accessors: impl Index / IndexMut for [T; N].             *)
(***************************************************************************)
ArrayIndex(INDEX) ==
  /\ ~wrapped
  /\ LET chk == IsValidIndex(INDEX, Len(data))
         p == PtrAdd(AsPtr, INDEX)
     IN IF ConstEval(chk) # "ok"
          THEN last' = Failed("array.index", INDEX, 0, ConstEval(chk), chk)
          ELSE \E r \in Deref(data, p) :
                 last' = Rec("array.index", INDEX, 0, <<>>, "ok", NoMsg, <<r>>,
                             TRUE, ~InBounds(data, p, 1), chk.ovf)
  /\ UNCHANGED <<data, src, wrapped>>

ArrayIndexMut(INDEX, value) ==
  /\ ~wrapped
  /\ LET chk == IsValidIndex(INDEX, Len(data))
         p == PtrAdd(AsPtr, INDEX)
     IN IF ConstEval(chk) # "ok"
          THEN /\ last' = Failed("array.index_mut", INDEX, 0, ConstEval(chk), chk)
               /\ data' = data
          ELSE /\ data' = StoreArray(data, p, <<value>>)
               /\ last' = Rec("array.index_mut", INDEX, 0, <<value>>, "ok", NoMsg,
                              <<value>>, TRUE, ~InBounds(data, p, 1), chk.ovf)
  /\ UNCHANGED <<src, wrapped>>

ArrayIndexRange(START, LENGTH) ==
  /\ ~wrapped
  /\ LET chk == IsValidIndexRange(START, LENGTH, Len(data))
         p == PtrAdd(AsPtr, START)
     IN IF ConstEval(chk) # "ok"
          THEN last' = Failed("array.index_range", START, LENGTH, ConstEval(chk), chk)
          ELSE \E view \in DerefArray(data, p, LENGTH) :
                 last' = Rec("array.index_range", START, LENGTH, <<>>, "ok", NoMsg,
                             view, TRUE, ~InBounds(data, p, LENGTH), chk.ovf)
  /\ UNCHANGED <<data, src, wrapped>>

ArrayIndexRangeMut(START, LENGTH) ==
  /\ ~wrapped
  /\ LET chk == IsValidIndexRange(START, LENGTH, Len(data))
         p == PtrAdd(AsPtr, START)
     IN IF ConstEval(chk) # "ok"
          THEN /\ last' = Failed("array.index_range_mut", START, LENGTH,
                                 ConstEval(chk), chk)
               /\ data' = data
          ELSE \E value \in ArrayValues(LENGTH) :
                 /\ data' = StoreArray(data, p, value)
                 /\ last' = Rec("array.index_range_mut", START, LENGTH, value, "ok",
                                NoMsg, value, TRUE, ~InBounds(data, p, LENGTH), chk.ovf)
  /\ UNCHANGED <<src, wrapped>>

(***************************************************************************)
(* SliceWrapper: the runtime-checked accessors.                            *)
(***************************************************************************)
\* SliceWrapper::new(&mut data): the wrapper borrows the container.
New ==
  /\ ~wrapped
  /\ wrapped' = TRUE
  /\ last' = Rec("wrapper.new", 0, 0, <<>>, "ok", NoMsg, <<>>, TRUE, FALSE, FALSE)
  /\ UNCHANGED <<data, src>>

\* The wrapper goes out of use and the client reaches the container again.
DropWrapper ==
  /\ wrapped
  /\ wrapped' = FALSE
  /\ last' = Rec("wrapper.drop", 0, 0, <<>>, "ok", NoMsg, <<>>, TRUE, FALSE, FALSE)
  /\ UNCHANGED <<data, src>>

\* The two assert! lines of index / index_mut for StaticRangeIndex.
RangeAssertsNoStartCheck(len, START, LENGTH) ==
  LET d == UsizeSub(len, START) IN
  IF ~(d.val >= LENGTH)
    THEN [outcome |-> "panic",
          msg |-> Msg("Not enough items after index {} (requested {}; length: {})",
                      <<"START", "LENGTH", "len">>, <<START, LENGTH, len>>),
          ovf |-> d.ovf]
    ELSE [outcome |-> "ok", msg |-> NoMsg, ovf |-> d.ovf]
RangeAsserts(len, START, LENGTH) ==
  IF ~(len > START)
    THEN [outcome |-> "panic",
          msg |-> Msg("Starting index {} is out of bounds", <<"START">>, <<START>>),
          ovf |-> FALSE]
    ELSE LET d == UsizeSub(len, START) IN
         IF ~(d.val >= LENGTH)
           THEN [outcome |-> "panic",
                 msg |-> Msg("Not enough items after index {} (requested {}; length: {})",
                             <<"START", "LENGTH", "len">>, <<START, LENGTH, len>>),
                 ovf |-> d.ovf]
           ELSE [outcome |-> "ok", msg |-> NoMsg, ovf |-> d.ovf]

\* self.0.as_ref().index(INDEX): the slice's own bounds-checked indexing.
SliceIndex(len, INDEX) ==
  IF INDEX >= len
    THEN [outcome |-> "panic",
          msg |-> Msg("index out of bounds: the len is {} but the index is {}",
                      <<"len", "INDEX">>, <<len, INDEX>>),
          ovf |-> FALSE]
    ELSE [outcome |-> "ok", msg |-> NoMsg, ovf |-> FALSE]

WrapperIndexRange(START, LENGTH) ==
  /\ wrapped
  /\ LET chk == RangeAsserts(Len(data), START, LENGTH)
         p == PtrAdd(AsPtr, START)
     IN IF chk.outcome # "ok"
          THEN last' = Failed("wrapper.index_range", START, LENGTH, chk.outcome, chk)
          ELSE \E view \in DerefArray(data, p, LENGTH) :
                 last' = Rec("wrapper.index_range", START, LENGTH, <<>>, "ok", NoMsg,
                             view, TRUE, ~InBounds(data, p, LENGTH), chk.ovf)
  /\ UNCHANGED <<data, src, wrapped>>

WrapperIndex(INDEX) ==
  /\ wrapped
  /\ LET chk == SliceIndex(Len(data), INDEX)
     IN IF chk.outcome # "ok"
          THEN last' = Failed("wrapper.index", INDEX, 0, chk.outcome, chk)
          ELSE \E r \in Deref(data, INDEX) :
                 last' = Rec("wrapper.index", INDEX, 0, <<>>, "ok", NoMsg, <<r>>,
                             TRUE, ~InBounds(data, INDEX, 1), chk.ovf)
  /\ UNCHANGED <<data, src, wrapped>>

WrapperIndexRangeMut(START, LENGTH) ==
  /\ wrapped
  /\ LET chk == RangeAsserts(Len(data), START, LENGTH)
         p == PtrAdd(AsPtr, START)
     IN IF chk.outcome # "ok"
          THEN /\ last' = Failed("wrapper.index_range_mut", START, LENGTH,
                                 chk.outcome, chk)
               /\ data' = data
          ELSE \E value \in ArrayValues(LENGTH) :
                 /\ data' = StoreArray(data, p, value)
                 /\ last' = Rec("wrapper.index_range_mut", START, LENGTH, value, "ok",
                                NoMsg, value, TRUE, ~InBounds(data, p, LENGTH), chk.ovf)
  /\ UNCHANGED <<src, wrapped>>

WrapperIndexMut(INDEX, value) ==
  /\ wrapped
  /\ LET chk == SliceIndex(Len(data), INDEX)
     IN IF chk.outcome # "ok"
          THEN /\ last' = Failed("wrapper.index_mut", INDEX, 0, chk.outcome, chk)
               /\ data' = data
          ELSE /\ data' = StoreArray(data, INDEX, <<value>>)
               /\ last' = Rec("wrapper.index_mut", INDEX, 0, <<value>>, "ok", NoMsg,
                              <<value>>, TRUE, ~InBounds(data, INDEX, 1), chk.ovf)
  /\ UNCHANGED <<src, wrapped>>

(***************************************************************************)
(* What else a client can call on a SliceWrapper.                          *)
(***************************************************************************)
\* The operations of the wrapped container that the crate itself relies on:
\* AsRef<[I]>::as_ref, AsMut<[I]>::as_mut and the slice's len.
ContainerOps == {"as_ref", "as_mut", "len"}

ContainerOp(m, mem) == IF m = "len" THEN <<Len(mem)>> ELSE mem

\* Everything implemented for SliceWrapper: the constructor and the four
\* Index / IndexMut impls.  Its fields are private and it implements neither
\* Deref, AsRef nor AsMut.
SliceWrapperImpls == {"new", "index", "index_mut", "index_range", "index_range_mut"}

\* wrapper.m(): resolved against the impls of SliceWrapper when the client
\* program is built.
WrapperCall(m) ==
  /\ wrapped
  /\ last' = IF m \in SliceWrapperImpls
               THEN Rec(m, 0, 0, <<>>, "ok", NoMsg, ContainerOp(m, data), TRUE,
                        FALSE, FALSE)
               ELSE Rec(m, 0, 0, <<>>, "build_error",
                        Msg("no method named {} found for struct SliceWrapper",
                            <<"method">>, <<>>),
                        <<>>, FALSE, FALSE, FALSE)
  /\ UNCHANGED <<data, src, wrapped>>

(***************************************************************************)
(* FixedSizeCopy::copy_from for [T; N].                                    *)
(***************************************************************************)
\* core::ptr::copy_nonoverlapping(from, to, count)
CopyNonoverlapping(from, to, count) ==
  [k \in 1..Len(to) |-> IF k <= count /\ k <= Len(from) THEN from[k] ELSE to[k]]

CopyCountShort(n) == IF n > 0 THEN n - 1 ELSE 0
CopyCount(n) == n

\* data.copy_from(src): input is src passed by value.
CopyFrom ==
  /\ ~wrapped
  /\ LET input == src IN
       data' = CopyNonoverlapping(input, data, CopyCount(Len(data)))
  /\ last' = Rec("array.copy_from", 0, 0, src, "ok", NoMsg, <<>>, TRUE, FALSE, FALSE)
  /\ UNCHANGED <<src, wrapped>>

(***************************************************************************)
(* Specifications.                                                         *)
(***************************************************************************)
Init ==
  /\ data \in Arrays
  /\ src = Zeros(Len(data))
  /\ wrapped = FALSE
  /\ last = NoOp

Next ==
  \/ \E i \in Tokens : ArrayIndex(i)
  \/ \E i \in Tokens, v \in Vals : ArrayIndexMut(i, v)
  \/ \E s \in Tokens, l \in Tokens : ArrayIndexRange(s, l)
  \/ \E s \in Tokens, l \in Tokens : ArrayIndexRangeMut(s, l)
  \/ New
  \/ DropWrapper
  \/ \E i \in Tokens : WrapperIndex(i)
  \/ \E i \in Tokens, v \in Vals : WrapperIndexMut(i, v)
  \/ \E s \in Tokens, l \in Tokens : WrapperIndexRange(s, l)
  \/ \E s \in Tokens, l \in Tokens : WrapperIndexRangeMut(s, l)
  \/ \E m \in ContainerOps : WrapperCall(m)

Spec == Init /\ [][Next]_vars

\* Two arrays of the same length with arbitrary contents; the destination is
\* read back after the copy.
InitCopy ==
  /\ data \in Arrays
  /\ src \in [1..Len(data) -> Vals]
  /\ wrapped = FALSE
  /\ last = NoOp

NextCopy ==
  \/ CopyFrom
  \/ \E i \in Tokens : ArrayIndex(i)

SpecCopy == InitCopy /\ [][NextCopy]_vars

(***************************************************************************)
(* Properties.                                                             *)
(***************************************************************************)
N == Len(data)
Range(s) == {s[k] : k \in 1..Len(s)}

ArrayIndexOps == {"array.index", "array.index_mut"}
ArrayRangeOps == {"array.index_range", "array.index_range_mut"}
WrapperIndexOps == {"wrapper.index", "wrapper.index_mut"}
WrapperRangeOps == {"wrapper.index_range", "wrapper.index_range_mut"}
WriteOps == {"array.index_mut", "array.index_range_mut",
             "wrapper.index_mut", "wrapper.index_range_mut"}

\* C1: a read of a fixed-capacity array with StaticIndex<i>, i < N, passes
\* the validity check (the program builds and runs), dereferences inside the
\* array and returns exactly the element stored at position i.
C1_IndexReadsElement ==
  (last.op = "array.index" /\ last.a < N) =>
    /\ last.outcome = "ok"
    /\ last.ran
    /\ ~last.ub
    /\ last.result = <<data[last.a + 1]>>

\* C1 witness: the last element (i = N - 1) of a largest array was read.
C1_Witness ==
  /\ last.op = "array.index"
  /\ N = MaxLen
  /\ last.a = N - 1
  /\ last.outcome = "ok"
  /\ data[1] # data[N]

\* C2 as stated: every StaticRangeIndex<START, LENGTH> with
\* START + LENGTH <= N is accepted on a fixed-capacity array and returns the
\* LENGTH elements at [START, START + LENGTH).
C2_RangeReadAsStated ==
  (last.op = "array.index_range" /\ last.a + last.b <= N) =>
    /\ last.outcome = "ok"
    /\ last.result = SubSeq(data, last.a + 1, last.a + last.b)

\* C2 amended: every StaticRangeIndex<START, LENGTH> with START < N and
\* START + LENGTH <= N is accepted on a fixed-capacity array and returns a
\* view of exactly LENGTH elements equal, in order, to the elements at
\* [START, START + LENGTH); with START = 0 and LENGTH = N (N >= 1) the view
\* is the whole array.
C2_RangeReadsSubarray ==
  (last.op = "array.index_range" /\ last.a < N /\ last.a + last.b <= N) =>
    /\ last.outcome = "ok"
    /\ last.ran
    /\ ~last.ub
    /\ Len(last.result) = last.b
    /\ \A k \in 1..last.b : last.result[k] = data[last.a + k]
    /\ (last.a = 0 /\ last.b = N) => last.result = data

\* C2 witness: the full range of a largest array was read.
C2_Witness ==
  /\ last.op = "array.index_range"
  /\ N = MaxLen
  /\ last.a = 0
  /\ last.b = N
  /\ last.outcome = "ok"
  /\ last.result = data
  /\ data[1] # data[N]

\* C3: on a SliceWrapper over a container of current length L, an access
\* with StaticIndex<i>, i >= L, or with StaticRangeIndex<START, LENGTH>,
\* START + LENGTH > L, panics, returns no reference and leaves the container
\* as it was; an access with i < L, or with START < L and
\* START + LENGTH <= L, does not panic.
C3_WrapperBounds ==
  [][LET r == last' IN
     /\ (r.op \in WrapperIndexOps /\ r.a >= N) =>
           (r.outcome = "panic" /\ r.result = <<>> /\ data' = data)
     /\ (r.op \in WrapperRangeOps /\ r.a + r.b > N) =>
           (r.outcome = "panic" /\ r.result = <<>> /\ data' = data)
     /\ (r.op \in WrapperIndexOps /\ r.a < N) => r.outcome = "ok"
     /\ (r.op \in WrapperRangeOps /\ r.a < N /\ r.a + r.b <= N) => r.outcome = "ok"
    ]_vars

\* C3 witness: a wrapper over a 3-element container was range-read with
\* START = 0, LENGTH = 5 and panicked.
C3_Witness ==
  /\ last.op = "wrapper.index_range"
  /\ N = 3
  /\ last.a = 0
  /\ last.b = 5
  /\ last.outcome = "panic"

\* C4: a write through a valid single-index or range accessor, on a
\* fixed-capacity array or a SliceWrapper, leaves exactly the written values
\* at the targeted positions and changes no other element and not the length.
C4_WriteFrame ==
  [][LET r == last'
         n == Len(r.val)
     IN (r.op \in WriteOps /\ r.outcome = "ok") =>
          /\ n = (IF r.op \in ArrayRangeOps \cup WrapperRangeOps THEN r.b ELSE 1)
          /\ r.a + n <= N
          /\ ~r.ub
          /\ Len(data') = N
          /\ \A k \in 1..N :
                data'[k] = IF k - 1 >= r.a /\ k - 1 < r.a + n THEN r.val[k - r.a]
                           ELSE data[k]
    ]_vars

\* C4 witness: a wrapper over a 3-element container took a two-element
\* range write at START = 0.
C4_Witness ==
  /\ last.op = "wrapper.index_range_mut"
  /\ last.outcome = "ok"
  /\ N = 3
  /\ last.a = 0
  /\ last.b = 2
  /\ last.val = <<1, 0>>
  /\ data = <<1, 0, 1>>

\* C5: after data.copy_from(src) the destination equals the source at all
\* N positions, the source and the length are unchanged and the call has no
\* failure outcome.
C5_CopyFrom ==
  [][last'.op = "array.copy_from" =>
       /\ data' = src
       /\ src' = src
       /\ Len(data') = N
       /\ last'.outcome = "ok"
    ]_vars

\* C5 witness: a largest array with differing elements has been copied.
C5_Witness ==
  /\ last.op = "array.copy_from"
  /\ N = MaxLen
  /\ data = src
  /\ src[1] # src[N]
  /\ src[N] # 0

\* C6: on a fixed-capacity array an access with INDEX >= N, or with a
\* (START, LENGTH) that fails the range rule (START < N and
\* N - START >= LENGTH), fails the build: the method body never runs and no
\* reference is returned; no fixed-capacity access ends in a panic.
C6_BuildTimeRejection ==
  /\ (last.op \in ArrayIndexOps /\ last.a >= N) =>
        (last.outcome = "build_error" /\ ~last.ran /\ last.result = <<>>)
  /\ (last.op \in ArrayRangeOps /\ ~(last.a < N /\ N - last.a >= last.b)) =>
        (last.outcome = "build_error" /\ ~last.ran /\ last.result = <<>>)
  /\ (last.op \in ArrayIndexOps \cup ArrayRangeOps) =>
        (last.outcome # "panic" /\ (last.ran => last.outcome = "ok"))

\* C6 witness: a range whose start is inside the array and whose end is not
\* was rejected.
C6_Witness ==
  /\ last.op = "array.index_range"
  /\ last.a < N
  /\ last.a + last.b > N
  /\ last.a + last.b <= UsizeMax
  /\ last.outcome = "build_error"

\* C7: every failed bounds check of a range access on a SliceWrapper reports
\* the requested START, the requested LENGTH and the container's length.
C7_RangeDiagnostic ==
  (last.op \in WrapperRangeOps /\ last.outcome = "panic") =>
    /\ {"START", "LENGTH", "len"} \subseteq Range(last.msg.names)
    /\ {last.a, last.b, N} \subseteq Range(last.msg.args)

\* C8: every operation of the wrapped container is available on the
\* SliceWrapper, with the result it has on the container.
C8_PassThrough ==
  (last.op \in ContainerOps) =>
    /\ last.outcome = "ok"
    /\ last.result = ContainerOp(last.op, data)

\* C9: the fixed-capacity check with N = L accepts an index or a range
\* exactly when the SliceWrapper access over a container of length L does not
\* panic, also when START + LENGTH exceeds the largest usize.
C9_SameRule ==
  /\ (last.op \in WrapperIndexOps) =>
        (last.outcome = "ok" <=> ConstEval(IsValidIndex(last.a, N)) = "ok")
  /\ (last.op \in WrapperRangeOps) =>
        (last.outcome = "ok" <=> ConstEval(IsValidIndexRange(last.a, last.b, N)) = "ok")
  /\ (last.op \in ArrayIndexOps) =>
        (last.outcome = "ok" <=> SliceIndex(N, last.a).outcome = "ok")
  /\ (last.op \in ArrayRangeOps) =>
        (last.outcome = "ok" <=> RangeAsserts(N, last.a, last.b).outcome = "ok")

\* C9 witness: a wrapper range access whose START + LENGTH exceeds the
\* largest usize panicked, with START inside the container.
C9_Witness ==
  /\ last.op = "wrapper.index_range"
  /\ last.a < N
  /\ last.a + last.b > UsizeMax
  /\ last.outcome = "panic"

\* C10: no arithmetic step of a range validity check, fixed-capacity or
\* dynamic, underflows or overflows.
C10_NoOverflowInCheck ==
  (last.op \in ArrayRangeOps \cup WrapperRangeOps) => ~last.ovf
====
